---------------------------- MODULE Spec2Model ----------------------------
(***************************************************************************)
(* A state-machine model of GameClient (src/game.js): the browser client   *)
(* of a multiplayer world.  One action per event handler: the window       *)
(* resize listener, the key listeners, the movement repeat timer, the      *)
(* WebSocket callbacks (one action per inbound message kind), the world    *)
(* image load and the animation frame.                                     *)
(*                                                                         *)
(* Numbers.  World coordinates delivered by the server and chosen by the   *)
(* spawners are integers here.  The camera offset is kept in HALF pixels   *)
(* (twice the value game.js stores), so that width / 2 is exact for odd    *)
(* widths.  Distances are compared squared and scaled, which is exact.     *)
(*                                                                         *)
(* Objects.  A player record carries a field ref, the identity of the      *)
(* JavaScript object: two records are the same object iff their refs are   *)
(* equal.  A new object gets the smallest ref no live object uses.         *)
(***************************************************************************)
EXTENDS Integers, Sequences, FiniteSets, TLC

VARIABLES
    canvasW, canvasH,      \* canvas.width, canvas.height
    socketState,           \* socket.readyState
    sent,                  \* the messages handed to socket.send, in order
    playerId,              \* this.playerId
    myPlayer,              \* this.myPlayer
    players,               \* this.players: id -> player record
    avatars,               \* this.avatars: name -> avatar definition
    avatarImages,          \* this.avatarImages: the cache keys that hold an image
    loads,                 \* the loadAvatarImagesForPlayer calls waiting on an image
    cameraX, cameraY,      \* this.cameraX, this.cameraY, in half pixels
    animationId,           \* this.animationId (0 models null)
    worldImage,            \* the world image: "loading", "loaded" or "failed"
    pressedKeys,           \* this.pressedKeys
    lastDirection,         \* this.lastDirection
    isMoving,              \* this.isMoving
    movementInterval,      \* the direction the active repeat timer sends, or "none"
    playerHealth,          \* this.playerHealth
    items,                 \* this.items
    inventory,             \* this.inventory
    snakes,                \* this.snakes
    lastSnakeDamage,       \* this.lastSnakeDamage
    floatingTexts,         \* this.floatingTexts
    drawnItems,            \* the ids of the items the latest render() painted
    drawnPlayers,          \* the ids of the players the latest render() painted
    now                    \* the value Date.now() returns

netVars   == <<playerId, myPlayer, players, avatars, avatarImages, loads>>
camVars   == <<cameraX, cameraY>>
inputVars == <<pressedKeys, lastDirection, isMoving, movementInterval>>
simVars   == <<playerHealth, items, inventory, lastSnakeDamage, floatingTexts,
               drawnItems, drawnPlayers>>
vars == <<canvasW, canvasH, socketState, sent, netVars, camVars, animationId,
          worldImage, inputVars, simVars, snakes, now>>

---------------------------------------------------------------------------
(* Program constants *)

worldWidth == 2048
worldHeight == 2048
itemSize == 20
snakeWidth == 15
snakeHeight == 35
itemCount == 50
snakeCount == 15
playerRadius == 15
initialHealth == 100
maxHealth == 100
healAmount == 5
biteDamage == 5
damageCooldown == 1000
textLife == 60
textVelocityY == -2
textOffsetY == 30
itemTypes == <<"banana", "apple", "blueberry">>

(* Bounds of the exploration *)

MaxFrames == 3         \* animation frames requested
MaxClock == 2          \* clock advances
NearItems == 2         \* items spawned within reach of the positions used
MaxSent == 4           \* messages sent
AgingFrames == 62      \* animation frames requested where texts run out their life
MoveWindow == 3        \* frames during which the server moves the player there
MaxLoads == 2          \* loadAvatarImagesForPlayer calls waiting on an image

ClockStep == damageCooldown \div 2     \* milliseconds per clock advance
StartTime == 100 * damageCooldown      \* Date.now() at construction

Max(a, b) == IF a >= b THEN a ELSE b
Min(a, b) == IF a <= b THEN a ELSE b

NoPlayer == [ref |-> 0]
IsSet(p) == p.ref # 0
NoId == "none"

---------------------------------------------------------------------------
(* Local simulation: the pure part of render().  A simulation state s is   *)
(* the record [items, inventory, playerHealth, floatingTexts,              *)
(* lastSnakeDamage]; p is this.myPlayer.                                   *)

SimState == [items |-> items, inventory |-> inventory,
             playerHealth |-> playerHealth, floatingTexts |-> floatingTexts,
             lastSnakeDamage |-> lastSnakeDamage]

addFloatingText(texts, x, y, text, color) ==
    Append(texts, [x |-> x, y |-> y, text |-> text, color |-> color,
                   life |-> textLife, maxLife |-> textLife,
                   velocityY |-> textVelocityY])

(* A map that sends every type to the banana counter *)
itemTypeMap_AllBananas(type) == "bananas"

itemTypeMap(type) ==
    CASE type = "banana" -> "bananas"
      [] type = "apple" -> "apples"
      [] type = "blueberry" -> "blueberries"

(* collectItem with the cap on the health left out *)
collectItem_Uncapped(s, i, p) ==
    LET inventoryKey == itemTypeMap(s.items[i].type)
    IN  [s EXCEPT !.items[i].collected = TRUE,
                  !.inventory[inventoryKey] = @ + 1,
                  !.playerHealth = @ + healAmount,
                  !.floatingTexts =
                      addFloatingText(@, p.x, p.y - textOffsetY, "+5", "#00FF00")]

(* collectItem that leaves the collected flag as it was *)
collectItem_NoFlag(s, i, p) ==
    LET inventoryKey == itemTypeMap(s.items[i].type)
    IN  [s EXCEPT !.inventory[inventoryKey] = @ + 1,
                  !.playerHealth = Min(maxHealth, @ + healAmount),
                  !.floatingTexts =
                      addFloatingText(@, p.x, p.y - textOffsetY, "+5", "#00FF00")]

collectItem(s, i, p) ==
    LET inventoryKey == itemTypeMap(s.items[i].type)
    IN  [s EXCEPT !.items[i].collected = TRUE,
                  !.inventory[inventoryKey] = @ + 1,
                  !.playerHealth = Min(maxHealth, @ + healAmount),
                  !.floatingTexts =
                      addFloatingText(@, p.x, p.y - textOffsetY, "+5", "#00FF00")]

(* The pickup test without the overlap threshold: distance < totalRadius *)
ItemInReach_Touching(p, item) ==
    LET dx == 20 * p.x - (20 * item.x + 10 * itemSize)
        dy == 20 * p.y - (20 * item.y + 10 * itemSize)
        reach == 20 * playerRadius + 10 * itemSize
    IN  dx * dx + dy * dy < reach * reach

(* distance < totalRadius - overlapThreshold, scaled by 20 and squared *)
ItemInReach(p, item) ==
    LET dx == 20 * p.x - (20 * item.x + 10 * itemSize)
        dy == 20 * p.y - (20 * item.y + 10 * itemSize)
        reach == 20 * playerRadius + 10 * itemSize - itemSize
    IN  dx * dx + dy * dy < reach * reach

RECURSIVE ItemsForEach(_, _, _)
ItemsForEach(s, p, i) ==
    IF i > Len(s.items) THEN s
    ELSE IF s.items[i].collected THEN ItemsForEach(s, p, i + 1)
    ELSE IF ItemInReach(p, s.items[i])
         THEN ItemsForEach(collectItem(s, i, p), p, i + 1)
         ELSE ItemsForEach(s, p, i + 1)

checkItemCollisions(s, p) ==
    IF ~IsSet(p) THEN s ELSE ItemsForEach(s, p, 1)

takeSnakeDamage(s, p) ==
    [s EXCEPT !.playerHealth = Max(0, @ - biteDamage),
              !.floatingTexts =
                  addFloatingText(@, p.x, p.y - textOffsetY, "-5", "#FF0000")]

(* distance < totalRadius, scaled by 2 and squared *)
SnakeInReach(p, snake) ==
    LET dx == 2 * p.x - (2 * snake.x + snakeWidth)
        dy == 2 * p.y - (2 * snake.y + snakeHeight)
        reach == 2 * playerRadius + Max(snakeWidth, snakeHeight)
    IN  dx * dx + dy * dy < reach * reach

RECURSIVE SnakesForEach(_, _, _, _)
SnakesForEach(s, p, currentTime, i) ==
    IF i > Len(snakes) THEN s
    ELSE IF SnakeInReach(p, snakes[i])
         THEN SnakesForEach([takeSnakeDamage(s, p) EXCEPT
                                 !.lastSnakeDamage = currentTime],
                            p, currentTime, i + 1)
         ELSE SnakesForEach(s, p, currentTime, i + 1)

(* A cooldown test that always lets the hazard check run *)
CooledDown_Always(currentTime, last) == TRUE

CooledDown(currentTime, last) == ~(currentTime - last < damageCooldown)

(* checkSnakeCollisions that stamps the cooldown before it tests the player *)
checkSnakeCollisions_StampFirst(s, p, currentTime) ==
    IF ~CooledDown(currentTime, s.lastSnakeDamage) THEN s
    ELSE IF ~IsSet(p) THEN [s EXCEPT !.lastSnakeDamage = currentTime]
    ELSE SnakesForEach(s, p, currentTime, 1)

checkSnakeCollisions(s, p, currentTime) ==
    IF ~IsSet(p) THEN s
    ELSE IF ~CooledDown(currentTime, s.lastSnakeDamage) THEN s
    ELSE SnakesForEach(s, p, currentTime, 1)

AgeText(text) == [text EXCEPT !.life = @ - 1, !.y = @ + text.velocityY]

(* The filter that lets an entry with no life left stay *)
StillAlive_KeepsZero(text) == text.life >= 0

StillAlive(text) == text.life > 0

updateFloatingTexts(s) ==
    LET aged == [k \in 1..Len(s.floatingTexts) |-> AgeText(s.floatingTexts[k])]
    IN  [s EXCEPT !.floatingTexts = SelectSeq(aged, StillAlive)]

(* drawItems(): the items painted, those not collected whose screen        *)
(* position lies within one item size of the canvas; cx, cy in half pixels *)
drawItems(its, cx, cy, w, h) ==
    {its[i].id : i \in {j \in 1..Len(its) :
        /\ ~its[j].collected
        /\ 2 * its[j].x - cx > -(2 * itemSize)
        /\ 2 * its[j].x - cx < 2 * (w + itemSize)
        /\ 2 * its[j].y - cy > -(2 * itemSize)
        /\ 2 * its[j].y - cy < 2 * (h + itemSize)}}

(* The cache key `${name}_${direction}_${frameIndex}` *)
CacheKey(name, direction, frameIndex) == <<name, direction, frameIndex>>

(* drawPlayer that looks up the image of the facing as it is *)
drawPlayer_NoFlip(player, avs, images) ==
    /\ player.avatar \in DOMAIN avs
    /\ LET avatarData == avs[player.avatar]
           facing == IF "facing" \in DOMAIN player THEN player.facing ELSE "south"
           animationFrame ==
               IF "animationFrame" \in DOMAIN player THEN player.animationFrame ELSE 0
       IN  CacheKey(avatarData.name, facing, animationFrame) \in images

(* drawPlayer(): TRUE iff the player is painted, that is iff its avatar is *)
(* known and the cache holds the image of its facing (west uses the east   *)
(* frames) and animation frame                                             *)
drawPlayer(player, avs, images) ==
    /\ player.avatar \in DOMAIN avs
    /\ LET avatarData == avs[player.avatar]
           facing == IF "facing" \in DOMAIN player THEN player.facing ELSE "south"
           animationFrame ==
               IF "animationFrame" \in DOMAIN player THEN player.animationFrame ELSE 0
           direction == IF facing = "west" THEN "east" ELSE facing
       IN  CacheKey(avatarData.name, direction, animationFrame) \in images

(* drawAllPlayers(): every player of the store goes through drawPlayer *)
drawAllPlayers(ps, avs, images) ==
    {i \in DOMAIN ps : drawPlayer(ps[i], avs, images)}

(* render(): the three simulation calls, in the order render makes them;   *)
(* the drawing calls read the state and change none of it                  *)
render(s, p, currentTime) ==
    updateFloatingTexts(
        checkSnakeCollisions(checkItemCollisions(s, p), p, currentTime))

(* render(): drawItems paints from the state before the simulation calls *)
DoRender ==
    LET s == render(SimState, myPlayer, now)
    IN  /\ drawnItems' = drawItems(items, cameraX, cameraY, canvasW, canvasH)
        /\ drawnPlayers' = drawAllPlayers(players, avatars, avatarImages)
        /\ items' = s.items
        /\ inventory' = s.inventory
        /\ playerHealth' = s.playerHealth
        /\ floatingTexts' = s.floatingTexts
        /\ lastSnakeDamage' = s.lastSnakeDamage


---------------------------------------------------------------------------
(* Camera *)

(* One axis of updateCamera, in half pixels: pos - view / 2, clamped to    *)
(* [0, world - view] when the canvas is smaller than the world, else the   *)
(* world centred.                                                          *)
CameraAxis_Unclamped(pos, view, world) ==
    IF view < world THEN 2 * pos - view ELSE world - view

CameraAxis_NeverCentred(pos, view, world) ==
    Max(0, Min(2 * pos - view, 2 * (world - view)))

CameraAxis(pos, view, world) ==
    IF view < world
    THEN Max(0, Min(2 * pos - view, 2 * (world - view)))
    ELSE world - view

(* updateCamera() with this.myPlayer = p on a w x h canvas; cx, cy is the  *)
(* camera before the call.                                                 *)
updateCamera(p, w, h, cx, cy) ==
    IF ~IsSet(p) THEN <<cx, cy>>
    ELSE <<CameraAxis(p.x, w, worldWidth), CameraAxis(p.y, h, worldHeight)>>

SetCamera(p, w, h) ==
    LET c == updateCamera(p, w, h, cameraX, cameraY)
    IN  cameraX' = c[1] /\ cameraY' = c[2]

(* A resize listener that sets the canvas size and leaves the camera *)
Resize_NoRecompute(w, h) ==
    /\ canvasW' = w
    /\ canvasH' = h
    /\ UNCHANGED <<socketState, sent, netVars, camVars, animationId,
                   worldImage, inputVars, simVars, snakes, now>>

(* The resize listener of setupCanvas *)
Resize(w, h) ==
    /\ canvasW' = w
    /\ canvasH' = h
    /\ SetCamera(myPlayer, w, h)
    /\ UNCHANGED <<socketState, sent, netVars, animationId, worldImage,
                   inputVars, simVars, snakes, now>>

---------------------------------------------------------------------------
(* Avatar frame loading *)

directions == <<"north", "south", "east">>

(* The loop of loadAvatarImagesForPlayer from direction d, frame f on: the *)
(* first frame whose cache key holds no image, or <<0, 0>> when the loop   *)
(* ends.                                                                   *)
RECURSIVE NextMissing(_, _, _, _)
NextMissing(avatarData, d, f, images) ==
    IF d > Len(directions) THEN <<0, 0>>
    ELSE IF f >= Len(avatarData.frames[directions[d]])
         THEN NextMissing(avatarData, d + 1, 0, images)
    ELSE IF CacheKey(avatarData.name, directions[d], f) \notin images
         THEN <<d, f>>
         ELSE NextMissing(avatarData, d, f + 1, images)

(* A call of loadAvatarImagesForPlayer runs to its first await: ls is the  *)
(* list of calls waiting on an image.                                      *)
loadAvatarImagesForPlayer(ls, images, avs, player) ==
    IF player.avatar \notin DOMAIN avs THEN ls
    ELSE LET avatarData == avs[player.avatar]
             at == NextMissing(avatarData, 1, 0, images)
         IN  IF at = <<0, 0>> THEN ls
             ELSE Append(ls, [avatar |-> avatarData, dir |-> at[1], frame |-> at[2]])

IdOrder == <<"p1", "p2">>
Ids == {IdOrder[k] : k \in 1..Len(IdOrder)}

RECURSIVE LoadAllFrom(_, _, _, _, _)
LoadAllFrom(ls, images, avs, ps, k) ==
    IF k > Len(IdOrder) THEN ls
    ELSE IF IdOrder[k] \in DOMAIN ps
         THEN LoadAllFrom(loadAvatarImagesForPlayer(ls, images, avs, ps[IdOrder[k]]),
                          images, avs, ps, k + 1)
         ELSE LoadAllFrom(ls, images, avs, ps, k + 1)

loadAllAvatarImages(ls, images, avs, ps) == LoadAllFrom(ls, images, avs, ps, 1)

RemoveAt(seq, k) == [j \in 1..(Len(seq) - 1) |-> IF j < k THEN seq[j] ELSE seq[j + 1]]

(* The call ls[k] resumes after its image settled and runs to its next await *)
Resume(ls, k, images) ==
    LET c == ls[k]
        at == NextMissing(c.avatar, c.dir, c.frame + 1, images)
    IN  IF at = <<0, 0>> THEN RemoveAt(ls, k)
        ELSE [ls EXCEPT ![k] = [c EXCEPT !.dir = at[1], !.frame = at[2]]]

ImageLoaded(k) ==
    /\ k \in 1..Len(loads)
    /\ LET c == loads[k]
           images == avatarImages \cup
                        {CacheKey(c.avatar.name, directions[c.dir], c.frame)}
       IN  /\ avatarImages' = images
           /\ loads' = Resume(loads, k, images)
    /\ UNCHANGED <<canvasW, canvasH, socketState, sent, playerId, myPlayer,
                   players, avatars, camVars, animationId, worldImage,
                   inputVars, simVars, snakes, now>>

ImageFailed(k) ==
    /\ k \in 1..Len(loads)
    /\ loads' = Resume(loads, k, avatarImages)
    /\ UNCHANGED <<canvasW, canvasH, socketState, sent, playerId, myPlayer,
                   players, avatars, avatarImages, camVars, animationId,
                   worldImage, inputVars, simVars, snakes, now>>


---------------------------------------------------------------------------
(* handleServerMessage: one action per message kind.  The socket delivers  *)
(* messages only while it is open.                                         *)

(* { ...a, ...b } *)
Spread(a, b) ==
    [f \in DOMAIN a \cup DOMAIN b |-> IF f \in DOMAIN b THEN b[f] ELSE a[f]]

(* The object with the given fields and identity r *)
NewObject(fields, r) == Spread(fields, [ref |-> r])

(* The smallest identity no live object has *)
Fresh(live) ==
    CHOOSE r \in 1..(Cardinality(live) + 1) :
        r \notin live /\ \A q \in 1..(r - 1) : q \in live

IdIndex(id) == CHOOSE k \in 1..Len(IdOrder) : IdOrder[k] = id

(* case 'join_game', message.success true: ps is message.players (parsed   *)
(* from JSON, so every record is a new object), avs is message.avatars.    *)
JoinSuccess(id, ps, avs) ==
    LET stored == [i \in DOMAIN ps |-> NewObject(ps[i], IdIndex(i))]
        me == IF id \in DOMAIN stored THEN stored[id] ELSE NoPlayer
    IN  /\ playerId' = id
        /\ players' = stored
        /\ myPlayer' = me
        /\ avatars' = avs
        /\ loads' = loadAllAvatarImages(loads, avatarImages, avs, stored)
        /\ SetCamera(me, canvasW, canvasH)
        /\ UNCHANGED avatarImages

(* A handler that takes the player id from a failed acknowledgment *)
RecvJoinGame_KeepsId(success, id, ps, avs) ==
    /\ socketState = "OPEN"
    /\ IF success THEN JoinSuccess(id, ps, avs)
       ELSE /\ playerId' = id
            /\ UNCHANGED <<myPlayer, players, avatars, avatarImages, loads, camVars>>
    /\ UNCHANGED <<canvasW, canvasH, socketState, sent, animationId,
                   worldImage, inputVars, simVars, snakes, now>>

RecvJoinGame(success, id, ps, avs) ==
    /\ socketState = "OPEN"
    /\ IF success THEN JoinSuccess(id, ps, avs)
       ELSE UNCHANGED <<netVars, camVars>>
    /\ UNCHANGED <<canvasW, canvasH, socketState, sent, animationId,
                   worldImage, inputVars, simVars, snakes, now>>

(* case 'player_joined': id is message.player.playerId *)
PlayerJoinedStore(ps, me, id, player) ==
    LET live == {ps[i].ref : i \in DOMAIN ps \ {id}} \cup {me.ref}
        new == NewObject(player, Fresh(live))
    IN  [i \in DOMAIN ps \cup {id} |-> IF i = id THEN new ELSE ps[i]]

PlayerJoinedAvatars(avs, avatar) ==
    [n \in DOMAIN avs \cup {avatar.name} |->
        IF n = avatar.name THEN avatar ELSE avs[n]]

RecvPlayerJoined(id, player, avatar) ==
    /\ socketState = "OPEN"
    /\ players' = PlayerJoinedStore(players, myPlayer, id, player)
    /\ avatars' = PlayerJoinedAvatars(avatars, avatar)
    /\ loads' = loadAvatarImagesForPlayer(loads, avatarImages, avatars', player)
    /\ UNCHANGED <<canvasW, canvasH, socketState, sent, playerId, myPlayer,
                   avatarImages, camVars, animationId, worldImage, inputVars,
                   simVars, snakes, now>>

(* An entry applied without the test that the player is known: an unknown  *)
(* id gets a record made of the delta alone.                               *)
MovedEntry_Upsert(st, id, delta) ==
    LET live == {st.players[i].ref : i \in DOMAIN st.players \ {id}}
                   \cup (IF id = playerId THEN {} ELSE {st.myPlayer.ref})
        old == IF id \in DOMAIN st.players THEN st.players[id] ELSE <<>>
        new == NewObject(Spread(old, delta), Fresh(live))
        ps == [i \in DOMAIN st.players \cup {id} |->
                  IF i = id THEN new ELSE st.players[i]]
    IN  IF id = playerId
        THEN [players |-> ps, myPlayer |-> new,
              camera |-> updateCamera(new, canvasW, canvasH,
                                      st.camera[1], st.camera[2])]
        ELSE [st EXCEPT !.players = ps]

(* case 'players_moved': one entry <<id, delta>> of message.players applied *)
(* to st = [players, myPlayer, camera].                                    *)
MovedEntry(st, id, delta) ==
    IF id \notin DOMAIN st.players THEN st
    ELSE LET live == {st.players[i].ref : i \in DOMAIN st.players \ {id}}
                        \cup (IF id = playerId THEN {} ELSE {st.myPlayer.ref})
             new == NewObject(Spread(st.players[id], delta), Fresh(live))
             ps == [st.players EXCEPT ![id] = new]
         IN  IF id = playerId
             THEN [players |-> ps, myPlayer |-> new,
                   camera |-> updateCamera(new, canvasW, canvasH,
                                           st.camera[1], st.camera[2])]
             ELSE [st EXCEPT !.players = ps]

RECURSIVE MovedForEach(_, _, _)
MovedForEach(st, entries, k) ==
    IF k > Len(entries) THEN st
    ELSE MovedForEach(MovedEntry(st, entries[k][1], entries[k][2]), entries, k + 1)

RecvPlayersMoved(entries) ==
    /\ socketState = "OPEN"
    /\ LET st == MovedForEach([players |-> players, myPlayer |-> myPlayer,
                               camera |-> <<cameraX, cameraY>>], entries, 1)
       IN  /\ players' = st.players
           /\ myPlayer' = st.myPlayer
           /\ cameraX' = st.camera[1]
           /\ cameraY' = st.camera[2]
    /\ UNCHANGED <<canvasW, canvasH, socketState, sent, playerId, avatars,
                   avatarImages, loads, animationId, worldImage, inputVars,
                   simVars, snakes, now>>

(* A player_left that removes nothing *)
PlayerLeftStore_Keep(ps, id) == ps

(* case 'player_left': delete this.players[message.playerId] *)
PlayerLeftStore(ps, id) == [i \in DOMAIN ps \ {id} |-> ps[i]]

RecvPlayerLeft(id) ==
    /\ socketState = "OPEN"
    /\ players' = PlayerLeftStore(players, id)
    /\ UNCHANGED <<canvasW, canvasH, socketState, sent, playerId, myPlayer,
                   avatars, avatarImages, loads, camVars, animationId,
                   worldImage, inputVars, simVars, snakes, now>>

(* default: the message is logged *)
RecvUnhandled ==
    /\ socketState = "OPEN"
    /\ UNCHANGED vars

---------------------------------------------------------------------------
(* Connection and outbound messages *)

(* socket.onopen: joinGame() *)
SocketOpen ==
    /\ socketState = "CONNECTING"
    /\ socketState' = "OPEN"
    /\ sent' = Append(sent, [action |-> "join_game", username |-> "Tim"])
    /\ UNCHANGED <<canvasW, canvasH, netVars, camVars, animationId, worldImage,
                   inputVars, simVars, snakes, now>>

(* socket.onerror: the error is logged *)
SocketError ==
    /\ socketState \in {"CONNECTING", "OPEN"}
    /\ UNCHANGED vars

(* A close that starts the connection over *)
SocketClose_Retry ==
    /\ socketState \in {"CONNECTING", "OPEN"}
    /\ socketState' = "CONNECTING"
    /\ UNCHANGED <<canvasW, canvasH, sent, netVars, camVars, animationId,
                   worldImage, inputVars, simVars, snakes, now>>

(* The transport closes (socket.onclose logs); a WebSocket never reopens *)
SocketClose ==
    /\ socketState \in {"CONNECTING", "OPEN"}
    /\ socketState' = "CLOSED"
    /\ UNCHANGED <<canvasW, canvasH, sent, netVars, camVars, animationId,
                   worldImage, inputVars, simVars, snakes, now>>

sendMoveCommand(out, direction) ==
    Append(out, [action |-> "move", direction |-> direction])

sendStopCommand(out) == Append(out, [action |-> "stop"])

(* A resolution that looks at ArrowDown before ArrowUp *)
CurrentDirection_DownFirst(keys) ==
    IF "ArrowDown" \in keys THEN "down"
    ELSE IF "ArrowUp" \in keys THEN "up"
    ELSE IF "ArrowLeft" \in keys THEN "left"
    ELSE IF "ArrowRight" \in keys THEN "right"
    ELSE "null"

(* The direction handleMovement resolves from the keys held *)
CurrentDirection(keys) ==
    IF "ArrowUp" \in keys THEN "up"
    ELSE IF "ArrowDown" \in keys THEN "down"
    ELSE IF "ArrowLeft" \in keys THEN "left"
    ELSE IF "ArrowRight" \in keys THEN "right"
    ELSE "null"

(* handleMovement without the test of socket.readyState *)
handleMovement_NoGuard(keys) ==
    LET currentDirection == CurrentDirection(keys)
    IN  IF currentDirection # "null"
        THEN /\ lastDirection' = currentDirection
             /\ isMoving' = TRUE
             /\ sent' = sendMoveCommand(sent, currentDirection)
             /\ movementInterval' = currentDirection
        ELSE /\ lastDirection' = "null"
             /\ isMoving' = FALSE
             /\ movementInterval' = "none"
             /\ sent' = sendStopCommand(sent)

(* handleMovement() with this.pressedKeys = keys; playFootstep is audio only *)
handleMovement(keys) ==
    IF socketState # "OPEN"
    THEN UNCHANGED <<lastDirection, isMoving, movementInterval, sent>>
    ELSE LET currentDirection == CurrentDirection(keys)
         IN  IF currentDirection # "null"
             THEN /\ lastDirection' = currentDirection
                  /\ isMoving' = TRUE
                  /\ sent' = sendMoveCommand(sent, currentDirection)
                  /\ movementInterval' = currentDirection
             ELSE /\ lastDirection' = "null"
                  /\ isMoving' = FALSE
                  /\ movementInterval' = "none"
                  /\ sent' = sendStopCommand(sent)

CanSend == socketState = "OPEN" => Len(sent) < MaxSent

KeyDown(code) ==
    /\ CanSend
    /\ pressedKeys' = pressedKeys \cup {code}
    /\ handleMovement(pressedKeys')
    /\ UNCHANGED <<canvasW, canvasH, socketState, netVars, camVars,
                   animationId, worldImage, simVars, snakes, now>>

KeyUp(code) ==
    /\ CanSend
    /\ pressedKeys' = pressedKeys \ {code}
    /\ handleMovement(pressedKeys')
    /\ UNCHANGED <<canvasW, canvasH, socketState, netVars, camVars,
                   animationId, worldImage, simVars, snakes, now>>

(* The setInterval callback of startContinuousMovement *)
MovementTimer ==
    /\ movementInterval # "none"
    /\ CanSend
    /\ IF socketState = "OPEN" /\ isMoving
       THEN sent' = sendMoveCommand(sent, movementInterval)
       ELSE UNCHANGED sent
    /\ UNCHANGED <<canvasW, canvasH, socketState, netVars, camVars,
                   animationId, worldImage, inputVars, simVars, snakes, now>>

---------------------------------------------------------------------------
(* Render loop and clock *)

(* worldImage.onload: startRenderLoop() renders once and requests a frame *)
WorldImageLoaded ==
    /\ worldImage = "loading"
    /\ worldImage' = "loaded"
    /\ DoRender
    /\ animationId' = 1
    /\ UNCHANGED <<canvasW, canvasH, socketState, sent, netVars, camVars,
                   inputVars, snakes, now>>

(* worldImage.onerror: logged, the loop never starts *)
WorldImageFailed ==
    /\ worldImage = "loading"
    /\ worldImage' = "failed"
    /\ UNCHANGED <<canvasW, canvasH, socketState, sent, netVars, camVars,
                   animationId, inputVars, simVars, snakes, now>>

(* A loop that requests the next frame only while the socket is open *)
FrameRequested_WhileOpen(limit) ==
    worldImage = "loaded" /\ socketState = "OPEN" /\ animationId < limit

(* A frame is requested: the loop has started (startRenderLoop runs once   *)
(* the world image has loaded, and each callback requests the next frame)  *)
(* and fewer than `limit` frames were requested                            *)
FrameRequested(limit) == worldImage = "loaded" /\ animationId < limit

(* The requestAnimationFrame callback: render() and the next request *)
AnimationFrameWithin(limit) ==
    /\ FrameRequested(limit)
    /\ DoRender
    /\ animationId' = animationId + 1
    /\ UNCHANGED <<canvasW, canvasH, socketState, sent, netVars, camVars,
                   worldImage, inputVars, snakes, now>>

AnimationFrame == AnimationFrameWithin(MaxFrames)

(* Time passes between events *)
ClockAdvance ==
    /\ now < StartTime + MaxClock * ClockStep
    /\ now' = now + ClockStep
    /\ UNCHANGED <<canvasW, canvasH, socketState, sent, netVars, camVars,
                   animationId, worldImage, inputVars, simVars, snakes>>


---------------------------------------------------------------------------
(* The state after new GameClient(): the constructor's assignments and     *)
(* init().  Math.random places the items and the snakes; here the first    *)
(* NearItems items lie on chosen spots, `crowd` snakes share one spot, and *)
(* the rest lie on a spot no player position used here comes near.         *)

FarSpot == <<1500, 1500>>
ItemSpots == {<<95, 95>>, <<114, 90>>}
SnakeSpot == <<995, 85>>
SnakeCrowds == {1, snakeCount}

spawnItems(spots) ==
    [i \in 1..itemCount |->
        [id |-> i - 1,
         type |-> itemTypes[((i - 1) % Len(itemTypes)) + 1],
         x |-> IF i <= NearItems THEN spots[i][1] ELSE FarSpot[1],
         y |-> IF i <= NearItems THEN spots[i][2] ELSE FarSpot[2],
         collected |-> FALSE]]

spawnSnakes(crowd) ==
    [i \in 1..snakeCount |->
        [id |-> i - 1,
         x |-> IF i <= crowd THEN SnakeSpot[1] ELSE FarSpot[1],
         y |-> IF i <= crowd THEN SnakeSpot[2] ELSE FarSpot[2]]]

InitWith(sizes, layouts, crowds) ==
    /\ \E size \in sizes : canvasW = size[1] /\ canvasH = size[2]
    /\ socketState = "CONNECTING"
    /\ sent = <<>>
    /\ playerId = NoId
    /\ myPlayer = NoPlayer
    /\ players = <<>>
    /\ avatars = <<>>
    /\ avatarImages = {}
    /\ loads = <<>>
    /\ cameraX = 0
    /\ cameraY = 0
    /\ animationId = 0
    /\ worldImage = "loading"
    /\ pressedKeys = {}
    /\ lastDirection = "null"
    /\ isMoving = FALSE
    /\ movementInterval = "none"
    /\ playerHealth = initialHealth
    /\ \E spots \in layouts : items = spawnItems(spots)
    /\ inventory = [bananas |-> 0, apples |-> 0, blueberries |-> 0]
    /\ \E crowd \in crowds : snakes = spawnSnakes(crowd)
    /\ lastSnakeDamage = 0
    /\ floatingTexts = <<>>
    /\ drawnItems = {}
    /\ drawnPlayers = {}
    /\ now = StartTime

SmallCanvas == <<800, 600>>
LargeCanvas == <<3000, 2049>>
InReach == <<95, 95>>
Layouts == {spots \in [1..NearItems -> ItemSpots] : spots[1] = InReach}

BaseLayout == [i \in 1..NearItems |-> InReach]

(* Player records and deltas the server sends *)
PlayerAt(x, y) ==
    [x |-> x, y |-> y, facing |-> "south", animationFrame |-> 0, avatar |-> "none"]

---------------------------------------------------------------------------
(* The client under a server that moves the local player among the items,  *)
(* the snakes and open ground, while the render loop runs and time passes. *)

SimPlayers == [i \in {"p1"} |-> PlayerAt(2000, 100)]
SimDeltas == {[x |-> 100], [x |-> 1000]}

InitSim == InitWith({SmallCanvas}, Layouts, SnakeCrowds)

NextSim ==
    \/ SocketOpen
    \/ RecvJoinGame(TRUE, "p1", SimPlayers, <<>>)
    \/ \E d \in SimDeltas : RecvPlayersMoved(<<<<"p1", d>>>>)
    \/ WorldImageLoaded
    \/ AnimationFrame
    \/ ClockAdvance
    \/ Resize(LargeCanvas[1], LargeCanvas[2])

SpecSim == InitSim /\ [][NextSim]_vars


---------------------------------------------------------------------------
(* The client over the whole life of its floating texts: the server moves  *)
(* the local player onto the snake and onto two items during the first     *)
(* frames, then the render loop runs the texts out.                        *)

InitAging == InitWith({SmallCanvas}, {BaseLayout}, {1})

NextAging ==
    \/ SocketOpen
    \/ RecvJoinGame(TRUE, "p1", SimPlayers, <<>>)
    \/ animationId < MoveWindow /\ \E d \in SimDeltas : RecvPlayersMoved(<<<<"p1", d>>>>)
    \/ WorldImageLoaded
    \/ AnimationFrameWithin(AgingFrames)

SpecAging == InitAging /\ [][NextAging]_vars

---------------------------------------------------------------------------
(* The client under every kind of server message and window resizes.       *)
(* The avatars named here have no frames, so no image load starts.         *)

BareAvatar(name) ==
    [name |-> name, frames |-> [north |-> <<>>, south |-> <<>>, east |-> <<>>]]

NetAvatars == [n \in {"a1"} |-> BareAvatar("a1")]

(* Join acknowledgments <<playerId, players>>: the server lists the joiner *)
NetJoins ==
    {<<"p1", [i \in {"p1"} |-> PlayerAt(100, 100)]>>,
     <<"p2", [i \in {"p1", "p2"} |->
                 IF i = "p1" THEN PlayerAt(100, 100) ELSE PlayerAt(2000, 1900)]>>}

NetDeltas == {[x |-> 2000], [y |-> 1900, facing |-> "west"], [x |-> 100, y |-> 100]}

NetMoves ==
    {<<<<i, d>>>> : i \in Ids, d \in NetDeltas}
        \cup {<<<<"p1", [x |-> 2000]>>, <<"p2", d>>>> : d \in NetDeltas}

NetSizes == {SmallCanvas, LargeCanvas}

InitNet == InitWith(NetSizes, {BaseLayout}, {1})

NextNet ==
    \/ SocketOpen
    \/ SocketClose
    \/ \E j \in NetJoins : RecvJoinGame(TRUE, j[1], j[2], NetAvatars)
    \/ \E j \in NetJoins : RecvJoinGame(FALSE, j[1], j[2], NetAvatars)
    \/ \E i \in Ids : RecvPlayerJoined(i, PlayerAt(1000, 100), BareAvatar("a1"))
    \/ \E m \in NetMoves : RecvPlayersMoved(m)
    \/ \E i \in Ids : RecvPlayerLeft(i)
    \/ RecvUnhandled
    \/ \E size \in NetSizes : Resize(size[1], size[2])

SpecNet == InitNet /\ [][NextNet]_vars

---------------------------------------------------------------------------
(* The client with avatars that have frames to load: join acknowledgments, *)
(* a joining player whose avatar redefines a cached name, image loads that *)
(* succeed or fail, disconnects, and the render loop.                      *)

FramedAvatar ==
    [name |-> "a1", frames |-> [north |-> <<"n0.png">>, south |-> <<"s0.png">>,
                                east |-> <<>>]]

(* Another definition under the same name *)
RedrawnAvatar ==
    [name |-> "a1", frames |-> [north |-> <<"m0.png">>, south |-> <<>>,
                                east |-> <<>>]]

LoopAvatars == [n \in {"a1"} |-> FramedAvatar]

LoopPlayer == [PlayerAt(1000, 1000) EXCEPT !.avatar = "a1"]

LoopPlayers == [i \in {"p1"} |-> LoopPlayer]

InitLoop == InitWith({SmallCanvas}, {BaseLayout}, {1})

NextLoop ==
    \/ SocketOpen
    \/ SocketClose
    \/ Len(loads) < MaxLoads /\ RecvJoinGame(TRUE, "p1", LoopPlayers, LoopAvatars)
    \/ RecvJoinGame(FALSE, "p1", LoopPlayers, LoopAvatars)
    \/ Len(loads) < MaxLoads /\ RecvPlayerJoined("p2", LoopPlayer, RedrawnAvatar)
    \/ RecvPlayerLeft("p1")
    \/ RecvUnhandled
    \/ \E k \in 1..MaxLoads : ImageLoaded(k)
    \/ \E k \in 1..MaxLoads : ImageFailed(k)
    \/ WorldImageLoaded
    \/ WorldImageFailed
    \/ AnimationFrame

(* The browser runs every requested animation frame callback: weak         *)
(* fairness of AnimationFrame, written out with FrameRequested, which is   *)
(* what enables the callback (render() always completes).                  *)
SpecLoop ==
    /\ InitLoop
    /\ [][NextLoop]_vars
    /\ ([]<>(~FrameRequested(MaxFrames)) \/ []<><<AnimationFrame>>_vars)

---------------------------------------------------------------------------
(* The client painting players while their avatar images load: players     *)
(* turn west and south and step to an animation frame that has no image.   *)

PaintAvatar ==
    [name |-> "a2", frames |-> [north |-> <<>>, south |-> <<"s0.png">>,
                                east |-> <<"e0.png">>]]

PaintAvatars == [n \in {"a2"} |-> PaintAvatar]

PaintPlayer(facing) ==
    [PlayerAt(1000, 1000) EXCEPT !.avatar = "a2", !.facing = facing]

PaintPlayers == [i \in {"p1"} |-> PaintPlayer("south")]

PaintDeltas == {[facing |-> "west"], [facing |-> "south"], [animationFrame |-> 1]}

InitPaint == InitWith({SmallCanvas}, {BaseLayout}, {1})

NextPaint ==
    \/ SocketOpen
    \/ Len(loads) < MaxLoads /\ RecvJoinGame(TRUE, "p1", PaintPlayers, PaintAvatars)
    \/ Len(loads) < MaxLoads /\ RecvPlayerJoined("p2", PaintPlayer("west"), PaintAvatar)
    \/ \E i \in Ids : \E d \in PaintDeltas : RecvPlayersMoved(<<<<i, d>>>>)
    \/ \E k \in 1..MaxLoads : ImageLoaded(k)
    \/ \E k \in 1..MaxLoads : ImageFailed(k)
    \/ WorldImageLoaded
    \/ AnimationFrame

SpecPaint == InitPaint /\ [][NextPaint]_vars

---------------------------------------------------------------------------
(* The client under key events, the repeat timer and the connection's life *)

Keys == {"ArrowUp", "ArrowDown", "ArrowLeft", "ArrowRight", "KeyA"}

InitInput == InitWith({SmallCanvas}, {BaseLayout}, {1})

NextInput ==
    \/ SocketOpen
    \/ SocketClose
    \/ \E code \in Keys : KeyDown(code)
    \/ \E code \in Keys : KeyUp(code)
    \/ MovementTimer

SpecInput == InitInput /\ [][NextInput]_vars

(* setInterval fires its callback again and again while the timer is set *)
SpecInputFair == SpecInput /\ WF_vars(MovementTimer)

---------------------------------------------------------------------------
(* The client over the life of its connection: the socket opens, reports   *)
(* errors and closes, while join acknowledgments arrive, keys go down and  *)
(* up and the repeat timer fires.                                          *)

SessionKeys == {"ArrowUp", "ArrowLeft"}

NextSession ==
    \/ SocketOpen
    \/ SocketError
    \/ SocketClose
    \/ \E j \in NetJoins : RecvJoinGame(TRUE, j[1], j[2], NetAvatars)
    \/ \E code \in SessionKeys : KeyDown(code)
    \/ \E code \in SessionKeys : KeyUp(code)
    \/ MovementTimer

SpecSession == InitInput /\ [][NextSession]_vars


---------------------------------------------------------------------------
(* Properties *)

CountTexts(texts, label) ==
    Cardinality({k \in 1..Len(texts) : texts[k].text = label})

(* The texts of the current state that outlive one aging step *)
Survivors(texts) == SelectSeq(texts, LAMBDA text : text.life > 1)

(* The number of texts with the given label that the step created *)
TextsAdded(label) ==
    CountTexts(floatingTexts', label) - CountTexts(Survivors(floatingTexts), label)

NewlyCollected == {i \in 1..Len(items) : ~items[i].collected /\ items'[i].collected}

(* C1: in every reachable state the player health lies in [0,100]: a       *)
(* pickup adds 5 capped at 100, a hazard hit subtracts 5 floored at 0.     *)
C1_HealthInRange == playerHealth >= 0 /\ playerHealth <= 100

(* An item was picked up at full health and bites have drained the health  *)
(* to the floor.                                                           *)
C1_Witness ==
    /\ inventory.bananas + inventory.apples + inventory.blueberries > 0
    /\ playerHealth = 0
    /\ CountTexts(floatingTexts, "-5") > 0

(* C2: hazard damage is applied at most once per 1000 ms window: in one    *)
(* render tick at most one -5 health change and one damage text occur,     *)
(* however many hazards overlap the player, and a tick that applies damage *)
(* comes at least 1000 ms after the damage before it.                      *)
C2_OneDamagePerWindow ==
    [][/\ TextsAdded("-5") <= 1
       /\ playerHealth' >= playerHealth - biteDamage
       /\ lastSnakeDamage' # lastSnakeDamage
              => now - lastSnakeDamage >= damageCooldown]_vars

(* C3: item pickup is idempotent per item: a collected item stays          *)
(* collected, and every step raises each inventory counter, and adds '+5'  *)
(* texts, only for the items that step newly collects; an item collected   *)
(* before gives no pickup, increment, heal or text again.                  *)
C3_PickupOnce ==
    [][/\ \A i \in 1..Len(items) : items[i].collected => items'[i].collected
       /\ \A k \in 1..Len(itemTypes) :
              inventory'[itemTypeMap(itemTypes[k])] =
                  inventory[itemTypeMap(itemTypes[k])]
                      + Cardinality({i \in NewlyCollected : items[i].type = itemTypes[k]})
       /\ TextsAdded("+5") = Cardinality(NewlyCollected)
       /\ playerHealth' <= playerHealth + healAmount * Cardinality(NewlyCollected)]_vars

(* The player stands on an item collected in an earlier tick, and the      *)
(* latest tick made no pickup.                                             *)
C3_Witness ==
    /\ IsSet(myPlayer)
    /\ animationId >= 2
    /\ \E i \in 1..Len(items) : items[i].collected /\ ItemInReach(myPlayer, items[i])
    /\ CountTexts(floatingTexts, "+5") > 0
    /\ \A k \in 1..Len(floatingTexts) : floatingTexts[k].life < textLife - 1

(* C4: whenever the local player is set, myPlayer is the same record as    *)
(* the entry stored under the local player id in the players collection.   *)
C4_SameRecord ==
    IsSet(myPlayer) =>
        /\ playerId \in DOMAIN players
        /\ players[playerId].ref = myPlayer.ref

(* The camera offsets are held in half pixels *)
C5_AxisClamped(offset, view, world) ==
    view < world => 0 <= offset /\ offset <= 2 * (world - view)

(* C5: per axis, whenever the viewport is smaller than the world, the      *)
(* camera offset satisfies 0 <= offset <= world - viewport.                *)
C5_CameraClamped ==
    /\ C5_AxisClamped(cameraX, canvasW, worldWidth)
    /\ C5_AxisClamped(cameraY, canvasH, worldHeight)

(* The local player is past the far edge on both axes of a small viewport: *)
(* the camera sits on the upper bound.                                     *)
C5_Witness ==
    /\ IsSet(myPlayer)
    /\ canvasW < worldWidth /\ canvasH < worldHeight
    /\ 2 * myPlayer.x - canvasW > 2 * (worldWidth - canvasW)
    /\ 2 * myPlayer.y - canvasH > 2 * (worldHeight - canvasH)
    /\ cameraX = 2 * (worldWidth - canvasW)
    /\ cameraY = 2 * (worldHeight - canvasH)

C6_AxisCentred(offset, view, world) == view >= world => offset = world - view

(* C6 as stated: per axis, whenever the viewport is at least the world,    *)
(* the camera offset is exactly (world - viewport) / 2.                    *)
C6_CentredAlways ==
    /\ C6_AxisCentred(cameraX, canvasW, worldWidth)
    /\ C6_AxisCentred(cameraY, canvasH, worldHeight)

(* C6 amended: the same, in the states in which the local player is set.   *)
C6_CentredOnceJoined == IsSet(myPlayer) => C6_CentredAlways

(* The viewport exceeds the world and the local player is far from the     *)
(* world's centre.                                                         *)
C6_Witness ==
    /\ IsSet(myPlayer)
    /\ canvasW >= worldWidth /\ canvasH >= worldHeight
    /\ myPlayer.x = 2000 /\ myPlayer.y = 1900

(* C7: whenever the local player is set, the stored camera offset is the   *)
(* camera function of the local player's position, the viewport size and   *)
(* the world size.                                                         *)
C7_CameraFresh ==
    IsSet(myPlayer) =>
        /\ cameraX = CameraAxis(myPlayer.x, canvasW, worldWidth)
        /\ cameraY = CameraAxis(myPlayer.y, canvasH, worldHeight)

(* A delta has moved the local player and the window is not the one the    *)
(* client joined with on the camera's clamped path.                        *)
C7_Witness ==
    /\ IsSet(myPlayer)
    /\ myPlayer.facing = "west" /\ myPlayer.y = 1900 /\ myPlayer.x = 2000
    /\ canvasW < worldWidth
    /\ cameraX = 2 * (worldWidth - canvasW)

(* The fields a player record carries besides its identity *)
Fields(record) == DOMAIN record \ {"ref"}

(* The delta the message supplies for id, or the empty delta *)
DeltaFor(entries, id) ==
    IF \E k \in 1..Len(entries) : entries[k][1] = id
    THEN entries[CHOOSE k \in 1..Len(entries) : entries[k][1] = id][2]
    ELSE <<>>

C8_Merged(entries) ==
    /\ DOMAIN players' = DOMAIN players
    /\ \A i \in DOMAIN players :
           LET delta == DeltaFor(entries, i)
           IN  /\ Fields(players'[i]) = Fields(players[i]) \cup DOMAIN delta
               /\ \A f \in Fields(players'[i]) :
                      players'[i][f] =
                          IF f \in DOMAIN delta THEN delta[f] ELSE players[i][f]

(* C8: a players_moved message changes only the supplied fields of the     *)
(* listed players that are in the store: fields not supplied keep their    *)
(* value, players not listed are unchanged, and an entry for an id not in  *)
(* the store creates no record.                                            *)
C8_MovedMergesOnly ==
    [][\A m \in NetMoves : RecvPlayersMoved(m) => C8_Merged(m)]_vars

(* A delta of x alone was merged into a joined player: y and facing are    *)
(* the ones it joined with, while the other id is not in the store.        *)
C8_Witness ==
    /\ DOMAIN players = {"p1"}
    /\ players["p1"].x = 2000 /\ players["p1"].y = 100
    /\ players["p1"].facing = "south"

(* What handling player_left for id i makes of the current store *)
C9_AfterLeft(i) ==
    LET after == PlayerLeftStore(players, i)
        st == [players |-> after, myPlayer |-> myPlayer,
               camera |-> <<cameraX, cameraY>>]
    IN  /\ i \notin DOMAIN after
        /\ DOMAIN after = DOMAIN players \ {i}
        /\ \A j \in DOMAIN after : after[j] = players[j]
        /\ i \notin DOMAIN players => after = players
        /\ \A d \in NetDeltas : MovedEntry(st, i, d) = st

(* C9: after player_left for an id the id is absent from the players       *)
(* collection, whatever deltas preceded it, and the other entries are      *)
(* untouched; player_left for an absent id changes nothing; a later        *)
(* players_moved delta for the id is a no-op, so the id comes back only by *)
(* join_game or player_joined.                                             *)
C9_LeftStaysAbsent ==
    /\ [](\A i \in Ids : C9_AfterLeft(i))
    /\ [][/\ \A i \in Ids :
                 RecvPlayerLeft(i) =>
                     /\ i \notin DOMAIN players'
                     /\ \A j \in DOMAIN players' : players'[j] = players[j]
          /\ \A i \in Ids :
                 i \notin DOMAIN players /\ i \in DOMAIN players' =>
                     \/ \E j \in NetJoins : RecvJoinGame(TRUE, j[1], j[2], NetAvatars)
                     \/ RecvPlayerJoined(i, PlayerAt(1000, 100), BareAvatar("a1"))]_vars

(* The local player p2 joined a store holding p1 and p2, took a delta, and *)
(* p1 has left.                                                            *)
C9_Witness ==
    /\ playerId = "p2"
    /\ DOMAIN players = {"p2"}
    /\ players["p2"].facing = "west"

JoinMessage == [action |-> "join_game", username |-> "Tim"]

(* C10: no move or stop message is sent while the transport is not open:   *)
(* a step that sends leaves the socket open, the only message sent by the  *)
(* step that opens the socket is join_game, and a step taken while the     *)
(* socket is connecting or closed sends nothing.                           *)
C10_SendOnlyWhenOpen ==
    [][/\ sent' # sent => socketState' = "OPEN"
       /\ socketState # "OPEN" /\ sent' # sent => sent' = Append(sent, JoinMessage)
       /\ socketState # "OPEN" /\ socketState' # "OPEN" => sent' = sent
       /\ Len(sent') >= Len(sent)
       /\ \A k \in 1..Len(sent) : sent'[k] = sent[k]]_vars

(* The socket opened and closed, then a direction key went down: the key   *)
(* is held and nothing but join_game was ever sent.                        *)
C10_Witness ==
    /\ socketState = "CLOSED"
    /\ "ArrowUp" \in pressedKeys
    /\ sent = <<JoinMessage>>

(* A direction key is held and the transport is connected *)
C11_Held == socketState = "OPEN" /\ CurrentDirection(pressedKeys) # "null"

(* C11: from any state with a direction key held and the socket open, a    *)
(* move message is sent again, unless the key is released or the socket    *)
(* leaves the open state first.                                            *)
C11_MovesKeepComing ==
    \A n \in 0..(MaxSent - 1) :
        (C11_Held /\ Len(sent) = n)
            ~> (~C11_Held \/ (Len(sent) > n /\ sent[n + 1].action = "move"))

StopMessage == [action |-> "stop"]

(* No direction key is among the keys *)
C12_Idle(keys) == CurrentDirection(keys) = "null"

(* A move was sent and the last message sent is the stop that followed it *)
C12_Stopped ==
    /\ Len(sent) > 0
    /\ sent[Len(sent)] = StopMessage
    /\ \E k \in 1..Len(sent) : sent[k].action = "move"

(* C12: the step that releases the last held direction key while the       *)
(* socket is open sends exactly one stop; from then on, while no direction *)
(* key is held, no step (other key events, timer firings) sends a move or  *)
(* a further stop.                                                         *)
C12_OneStopThenSilence ==
    [][/\ socketState = "OPEN" /\ ~C12_Idle(pressedKeys) /\ C12_Idle(pressedKeys')
              => sent' = Append(sent, StopMessage)
       /\ C12_Stopped /\ C12_Idle(pressedKeys) /\ C12_Idle(pressedKeys')
              => sent' = sent]_vars

(* The step is a render tick *)
RenderTick == animationId' # animationId

(* C13: a render tick with the local player unset changes nothing of the   *)
(* local simulation: items, inventory, health, the cooldown timestamp and  *)
(* the floating texts are what they were; in every state with the local    *)
(* player unset the three simulation calls return the state unchanged.     *)
C13_UnsetPlayerNoSimulation ==
    /\ [](~IsSet(myPlayer) => render(SimState, myPlayer, now) = SimState)
    /\ [][RenderTick /\ ~IsSet(myPlayer) =>
              UNCHANGED <<items, inventory, playerHealth, lastSnakeDamage,
                          floatingTexts>>]_vars

(* Two render ticks have run, the clock has advanced and no join           *)
(* acknowledgment has arrived.                                             *)
C13_Witness ==
    /\ ~IsSet(myPlayer)
    /\ animationId >= 2
    /\ now > StartTime
    /\ playerHealth = initialHealth /\ lastSnakeDamage = 0 /\ floatingTexts = <<>>

(* playerRadius + itemRadius - 0.1 * itemRadius *)
C14_Reach == playerRadius + itemSize \div 2 - itemSize \div 20

(* The squared distance from the player to the item's centre *)
C14_Distance2(p, item) ==
    (p.x - (item.x + itemSize \div 2)) * (p.x - (item.x + itemSize \div 2))
        + (p.y - (item.y + itemSize \div 2)) * (p.y - (item.y + itemSize \div 2))

(* C14: a render tick picks up an uncollected item exactly when the        *)
(* distance from the local player to the item's centre is below 24; each   *)
(* pickup marks the item collected, adds 1 to the inventory counter of its *)
(* type, raises the health by 5 up to 100 and appends one '+5' text.       *)
(* Steps that are no render tick leave the items alone.                    *)
C14_PickupWithinReach ==
    [][/\ RenderTick /\ IsSet(myPlayer) =>
            /\ \A i \in 1..Len(items) :
                   ~items[i].collected =>
                       (items'[i].collected <=>
                           C14_Distance2(myPlayer, items[i]) < C14_Reach * C14_Reach)
            /\ \A k \in 1..Len(itemTypes) :
                   inventory'[itemTypeMap(itemTypes[k])] =
                       inventory[itemTypeMap(itemTypes[k])]
                           + Cardinality({i \in NewlyCollected : items[i].type = itemTypes[k]})
            /\ TextsAdded("+5") = Cardinality(NewlyCollected)
            /\ TextsAdded("-5") = 0 =>
                   playerHealth' =
                       Min(100, playerHealth + 5 * Cardinality(NewlyCollected))
       /\ ~RenderTick => items' = items /\ inventory' = inventory]_vars

(* The player, bitten down to 25, stands 24 away from the centre of an     *)
(* item that is still uncollected, after a tick that picked up the item    *)
(* next to it and healed to 30.                                            *)
C14_Witness ==
    /\ IsSet(myPlayer)
    /\ animationId >= 2
    /\ playerHealth = 30
    /\ inventory.bananas = 1 /\ inventory.apples = 0
    /\ items[1].collected
    /\ ~items[2].collected
    /\ C14_Distance2(myPlayer, items[2]) = C14_Reach * C14_Reach

(* The indices of the texts that have life left after one more aging step *)
C15_Kept == {k \in 1..Len(floatingTexts) : floatingTexts[k].life - 1 > 0}

(* The index of the j-th kept text *)
C15_Nth(j) ==
    CHOOSE k \in C15_Kept : Cardinality({q \in C15_Kept : q < k}) = j - 1

(* C15: on each aging step (one per render tick) every entry's life drops  *)
(* by 1 and its y moves by its velocityY; the entries whose life reaches 0 *)
(* leave, so that the old entries shrink by exactly their number, and the  *)
(* survivors keep their relative order, ahead of the texts the tick        *)
(* created.  No other step changes the collection.                         *)
C15_AgingStep ==
    [][/\ RenderTick =>
            /\ Len(floatingTexts') >= Cardinality(C15_Kept)
            /\ \A j \in 1..Cardinality(C15_Kept) :
                   LET old == floatingTexts[C15_Nth(j)]
                       new == floatingTexts'[j]
                   IN  /\ new.life = old.life - 1
                       /\ new.y = old.y + old.velocityY
                       /\ new.x = old.x /\ new.text = old.text
                       /\ new.color = old.color /\ new.velocityY = old.velocityY
            /\ \A j \in (Cardinality(C15_Kept) + 1)..Len(floatingTexts') :
                   floatingTexts'[j].life = textLife - 1
            /\ NewlyCollected = {} /\ playerHealth' = playerHealth =>
                   Len(floatingTexts') =
                       Len(floatingTexts)
                           - Cardinality({k \in 1..Len(floatingTexts) :
                                             floatingTexts[k].life - 1 = 0})
       /\ ~RenderTick => floatingTexts' = floatingTexts]_vars

(* The '-5' text of a bite on the first tick has run out and left; the two *)
(* '+5' texts of the pickups one tick later are on their last frame, in    *)
(* their order, 2 * 59 above where they appeared.                          *)
C15_Witness ==
    /\ lastSnakeDamage # 0
    /\ Len(floatingTexts) = 2
    /\ \A k \in 1..2 :
           /\ floatingTexts[k].text = "+5"
           /\ floatingTexts[k].life = 1
           /\ floatingTexts[k].y = 100 - textOffsetY - 2 * 59

(* C16: every render tick runs the item pickup check, the hazard contact   *)
(* check and the floating-text aging once each, in that order, and paints  *)
(* after them: the items painted in the frame are the items not collected  *)
(* once that frame's simulation has run.                                   *)
C16_SimulateThenPaint ==
    [][RenderTick =>
          /\ <<items', inventory', playerHealth', lastSnakeDamage'>> =
                 LET s == checkSnakeCollisions(checkItemCollisions(SimState, myPlayer),
                                               myPlayer, now)
                 IN  <<s.items, s.inventory, s.playerHealth, s.lastSnakeDamage>>
          /\ \A id \in drawnItems' :
                 \E i \in 1..Len(items') : items'[i].id = id /\ ~items'[i].collected]_vars

(* C17: once the render loop has started it never stops: after every       *)
(* render tick another one follows (up to the frames explored), whatever   *)
(* messages, disconnects, departures and failed image loads occur.         *)
C17_LoopKeepsRunning ==
    \A n \in 1..(MaxFrames - 1) : (animationId = n) ~> (animationId = n + 1)

(* The last frame explored has run although the socket is closed, the      *)
(* local player's entry has left the store, and every avatar image load    *)
(* has failed.                                                             *)
C17_Witness ==
    /\ animationId = MaxFrames
    /\ socketState = "CLOSED"
    /\ IsSet(myPlayer)
    /\ players = <<>>
    /\ "a1" \in DOMAIN avatars
    /\ avatarImages = {}
    /\ loads = <<>>

(* The call c is at or before frame f of direction d in its loop *)
C18_Ahead(c, d, f) == d > c.dir \/ (d = c.dir /\ f > c.frame)

(* C18: frame loads do not wait for each other: every frame a running call *)
(* of loadAvatarImagesForPlayer has yet to load (no image cached for it)   *)
(* has its load in flight, so a load that never settles holds back the     *)
(* start of no other load.                                                 *)
C18_LoadsIndependent ==
    \A k \in 1..Len(loads) :
        \A d \in 1..Len(directions) :
            \A f \in 0..(Len(loads[k].avatar.frames[directions[d]]) - 1) :
                (/\ C18_Ahead(loads[k], d, f)
                 /\ CacheKey(loads[k].avatar.name, directions[d], f) \notin avatarImages)
                    => \E j \in 1..Len(loads) :
                           /\ loads[j].avatar.name = loads[k].avatar.name
                           /\ loads[j].dir = d
                           /\ loads[j].frame = f

(* C19: a player_joined message inserts its avatar definition only when no *)
(* definition of that name is cached: every cached definition is the same  *)
(* after the message, and an uncached name gets the message's definition.  *)
C19_AvatarImmutable ==
    [][RecvPlayerJoined("p2", LoopPlayer, RedrawnAvatar) =>
          /\ \A n \in DOMAIN avatars :
                 n \in DOMAIN avatars' /\ avatars'[n] = avatars[n]
          /\ RedrawnAvatar.name \notin DOMAIN avatars =>
                 avatars'[RedrawnAvatar.name] = RedrawnAvatar]_vars

(* C20: a join acknowledgment with success false and a message with an     *)
(* unrecognized action change nothing of the client state, and are handled *)
(* in every state in which the socket is open: they never stop the handler *)
(* from taking the next message, nor the render loop (C17 is checked under *)
(* the same messages).                                                     *)
C20_RejectedMessagesInert ==
    /\ [](socketState = "OPEN" =>
              /\ ENABLED RecvJoinGame(FALSE, "p1", LoopPlayers, LoopAvatars)
              /\ ENABLED RecvUnhandled)
    /\ [][(RecvJoinGame(FALSE, "p1", LoopPlayers, LoopAvatars) \/ RecvUnhandled)
              => UNCHANGED vars]_vars

(* The client has joined, a second player has come, an avatar image is in  *)
(* the cache and the loop has rendered: the state a rejected message must  *)
(* leave alone, with the socket open to deliver it.                        *)
C20_Witness ==
    /\ socketState = "OPEN"
    /\ IsSet(myPlayer)
    /\ DOMAIN players = {"p1", "p2"}
    /\ avatarImages # {}
    /\ animationId >= 1
    /\ ENABLED RecvJoinGame(FALSE, "p1", LoopPlayers, LoopAvatars)

(* The number of join_game messages among the messages sent *)
C21_Joins == Cardinality({k \in 1..Len(sent) : sent[k].action = "join_game"})

(* C21: the connection goes from connecting to open to closed and never    *)
(* back: join_game is sent exactly once, by the step that opens the        *)
(* socket and ahead of every move or stop; once closed nothing is sent and *)
(* no connection starts; the step that closes the socket leaves players,   *)
(* the local player, avatars, health, inventory and items as they were.    *)
C21_ConnectOnceJoinOnce ==
    /\ [](/\ C21_Joins <= 1
          /\ sent # <<>> => sent[1] = JoinMessage
          /\ socketState = "CONNECTING" => sent = <<>>
          /\ socketState = "OPEN" => C21_Joins = 1)
    /\ [][/\ socketState' # socketState =>
                 \/ socketState = "CONNECTING" /\ socketState' \in {"OPEN", "CLOSED"}
                 \/ socketState = "OPEN" /\ socketState' = "CLOSED"
          /\ socketState' = "OPEN" /\ socketState # "OPEN" =>
                 sent' = Append(sent, JoinMessage)
          /\ socketState = "CLOSED" => sent' = sent
          /\ socketState' = "CLOSED" /\ socketState # "CLOSED" =>
                 UNCHANGED <<playerId, myPlayer, players, avatars, avatarImages,
                             playerHealth, inventory, items, sent, camVars>>]_vars

(* The socket has closed on a client that had joined among two players and *)
(* sent a move, with the direction key still held.                         *)
C21_Witness ==
    /\ socketState = "CLOSED"
    /\ IsSet(myPlayer)
    /\ DOMAIN players = {"p1", "p2"}
    /\ Len(sent) >= 2
    /\ sent[2].action = "move"
    /\ "ArrowUp" \in pressedKeys

(* C22: a render tick less than 1000 ms after the last applied hazard      *)
(* damage applies none, however many hazards overlap the player: the       *)
(* cooldown timestamp stays, no '-5' text is added and the health changes  *)
(* only by the tick's pickups; so a tick that applies damage comes at      *)
(* least 1000 ms after the damage before it.                               *)
C22_NoDamageInsideWindow ==
    [][RenderTick =>
          /\ now - lastSnakeDamage < 1000 =>
                 /\ lastSnakeDamage' = lastSnakeDamage
                 /\ TextsAdded("-5") = 0
                 /\ playerHealth' =
                        Min(100, playerHealth + 5 * Cardinality(NewlyCollected))
          /\ (lastSnakeDamage' # lastSnakeDamage \/ TextsAdded("-5") > 0) =>
                 /\ now - lastSnakeDamage >= 1000
                 /\ lastSnakeDamage' = now]_vars

(* All fifteen hazards overlap the player, damage was applied at the start *)
(* time, and a tick 500 ms later has run without adding a text: the texts  *)
(* present have all aged twice.                                            *)
C22_Witness ==
    /\ IsSet(myPlayer)
    /\ \A i \in 1..Len(snakes) : SnakeInReach(myPlayer, snakes[i])
    /\ lastSnakeDamage = StartTime
    /\ now - lastSnakeDamage = 500
    /\ animationId = 2
    /\ Len(floatingTexts) = snakeCount
    /\ \A k \in 1..Len(floatingTexts) : floatingTexts[k].life = textLife - 2

(* The image the painting of a player needs is in the cache *)
C23_FrameCached(player) ==
    /\ player.avatar \in DOMAIN avatars
    /\ \E direction \in {"north", "south", "east"} :
           /\ direction = player.facing
                  \/ (player.facing = "west" /\ direction = "east")
           /\ <<avatars[player.avatar].name, direction, player.animationFrame>>
                  \in avatarImages

(* C23: a render tick paints exactly the players whose avatar is known and *)
(* whose image for the facing (west uses east) and animation frame is in   *)
(* the cache; a player left out changes nothing else of the tick (the      *)
(* other players and the items are painted as without it); the cache never *)
(* loses an image, so a player whose frame has loaded is painted by every  *)
(* later tick that finds it with that facing and frame.                    *)
C23_PaintedIffCached ==
    [][/\ RenderTick =>
            /\ drawnPlayers' = {i \in DOMAIN players : C23_FrameCached(players[i])}
            /\ drawnItems' = drawItems(items, cameraX, cameraY, canvasW, canvasH)
       /\ avatarImages \subseteq avatarImages'
       /\ ~RenderTick => drawnPlayers' = drawnPlayers]_vars

(* The latest tick painted p1, who faces west with the east image loaded,  *)
(* and skipped p2, who is on an animation frame that has no image.         *)
C23_Witness ==
    /\ animationId >= 2
    /\ DOMAIN players = {"p1", "p2"}
    /\ players["p1"].facing = "west" /\ players["p1"].animationFrame = 0
    /\ players["p2"].animationFrame = 1
    /\ <<"a2", "east", 0>> \in avatarImages
    /\ drawnPlayers = {"p1"}

(* The items of the given type that are flagged collected *)
C24_Collected(type) ==
    {i \in 1..Len(items) : items[i].collected /\ items[i].type = type}

(* C24: each inventory counter equals the number of collected items of its *)
(* type, so the three counters sum to the number of collected items; the   *)
(* item container always holds the same 50 items, flagged and never        *)
(* removed.                                                                *)
C24_InventoryCountsCollected ==
    /\ [](/\ inventory.bananas = Cardinality(C24_Collected("banana"))
          /\ inventory.apples = Cardinality(C24_Collected("apple"))
          /\ inventory.blueberries = Cardinality(C24_Collected("blueberry"))
          /\ inventory.bananas + inventory.apples + inventory.blueberries =
                 Cardinality({i \in 1..Len(items) : items[i].collected})
          /\ Len(items) = 50
          /\ \A i \in 1..Len(items) : items[i].id = i - 1)
    /\ [][/\ Len(items') = Len(items)
          /\ \A i \in 1..Len(items) :
                 /\ items'[i].id = items[i].id
                 /\ items'[i].type = items[i].type
                 /\ items'[i].x = items[i].x /\ items'[i].y = items[i].y]_vars

(* A banana and an apple lying on one spot were collected in one tick *)
C24_Witness ==
    /\ items[1].collected /\ items[1].type = "banana"
    /\ items[2].collected /\ items[2].type = "apple"
    /\ inventory = [bananas |-> 1, apples |-> 1, blueberries |-> 0]
    /\ Len(items) = itemCount

(* The key of a direction *)
C25_KeyOf(direction) ==
    CASE direction = "up" -> "ArrowUp"
      [] direction = "down" -> "ArrowDown"
      [] direction = "left" -> "ArrowLeft"
      [] direction = "right" -> "ArrowRight"

C25_Priority == <<"up", "down", "left", "right">>

(* direction is the first of up, down, left, right whose key is among keys *)
C25_Resolved(direction, keys) ==
    \E k \in 1..Len(C25_Priority) :
        /\ C25_Priority[k] = direction
        /\ C25_KeyOf(direction) \in keys
        /\ \A j \in 1..(k - 1) : C25_KeyOf(C25_Priority[j]) \notin keys

(* C25: every move message sent, by a key event or by the repeat timer,    *)
(* carries the direction resolved from the keys held when it is sent, up   *)
(* before down before left before right; none is sent for a direction      *)
(* whose key is not held.                                                  *)
C25_MoveMatchesKeys ==
    [][(Len(sent') = Len(sent) + 1 /\ sent'[Len(sent')].action = "move") =>
          /\ sent'[Len(sent')].direction \in {"up", "down", "left", "right"}
          /\ C25_KeyOf(sent'[Len(sent')].direction) \in pressedKeys'
          /\ C25_Resolved(sent'[Len(sent')].direction, pressedKeys')]_vars

(* Down was pressed, then up while down stayed held, and the repeat timer  *)
(* started for up is set after one more move: the moves sent are down, up, *)
(* up.                                                                     *)
C25_Witness ==
    /\ {"ArrowUp", "ArrowDown"} \subseteq pressedKeys
    /\ Len(sent) = 4
    /\ sent[2] = [action |-> "move", direction |-> "down"]
    /\ sent[3] = [action |-> "move", direction |-> "up"]
    /\ sent[4] = [action |-> "move", direction |-> "up"]
    /\ movementInterval = "up"

(* C26: at most one repeat timer is active, and while no direction key is  *)
(* held no repeat timer is active and the moving flag is false, whatever   *)
(* the state of the socket.                                                *)
C26_NoTimerWithoutKey ==
    /\ movementInterval \in {"none", "up", "down", "left", "right"}
    /\ C12_Idle(pressedKeys) => movementInterval = "none" /\ ~isMoving


===========================================================================
